---- MODULE Spec2Model ----
(***************************************************************************)
(* Model of app.py: the module-level start-up (artifact load with its      *)
(* catch-all fallback, render seed, layout construction) followed by the   *)
(* request handlers of the Flask server (before_request gate, login page,  *)
(* login, logout, the Dash pages).                                         *)
(***************************************************************************)
EXTENDS Integers, Sequences, FiniteSets, TLC

\* ------------------------------------------------------------- bounds
\* Number of browser clients (each with its own session cookie).
NumClients == 2

Clients == 1..NumClients

\* random.randint(1, 100): both ends inclusive.
SeedMin == 1
SeedMax == 100

\* How many of the values random.randint can return are explored: the
\* lowest SeedSamples - 1 of them and the highest.
SeedSamples == 2

\* ------------------------------------------------------------- Python values
\* The values the handlers test for truthiness: None, booleans, strings.
PyNone == [t |-> "NoneType"]
PyBool(b) == [t |-> "bool", b |-> b]
PyStr(s) == [t |-> "str", s |-> s]

\* Python truth value of None / bool / str (the `if x` and `not x` tests).
Truthy(v) ==
    CASE v.t = "NoneType" -> FALSE
      [] v.t = "bool" -> v.b
      [] v.t = "str" -> v.s # ""

\* dict.get(key): the value, or None when the key is absent.
DictGet(d, k) == IF k \in DOMAIN d THEN d[k] ELSE PyNone

\* ------------------------------------------------------------- paths
\* Request paths are sequences of characters, so that str.startswith is
\* computed as a prefix test and not assumed.
PathRoot == <<"/">>
PathLogin == <<"/", "l", "o", "g", "i", "n">>
PathLogout == <<"/", "l", "o", "g", "o", "u", "t">>
PathDashboardNoSlash == <<"/", "d", "a", "s", "h", "b", "o", "a", "r", "d">>
PathDashboard == PathDashboardNoSlash \o <<"/">>
PathDashLayout == PathDashboard \o <<"_", "d", "a", "s", "h", "-", "l", "a", "y", "o", "u", "t">>
PathDashboards == PathDashboardNoSlash \o <<"s">>
PathUnderscoreDash == <<"/", "_", "d", "a", "s", "h">>
PathDashUpdate == PathUnderscoreDash \o <<"-", "u", "p", "d", "a", "t", "e">>
PathAsset == <<"/", "a", "s", "s", "e", "t", "s", "/", "n", ".", "p", "n", "g">>
PathDash == <<"/", "d", "a", "s", "h">>

\* str.startswith(prefix)
StartsWith(p, prefix) ==
    /\ Len(p) >= Len(prefix)
    /\ SubSeq(p, 1, Len(prefix)) = prefix

\* ------------------------------------------------------------- sessions
\* A Flask session is a dict; the only key this program uses is "logged_in".
EmptySession == [k \in {} |-> PyNone]
SessionWith(b) == [k \in {"logged_in"} |-> PyBool(b)]

\* The session contents a client's cookie may carry when it first talks to
\* this process: the cookie is signed with the fixed secret_key, so it
\* outlives the process that issued it.
InitialSessions == {EmptySession, SessionWith(FALSE), SessionWith(TRUE)}

\* ------------------------------------------------------------- responses
NoResponse == [kind |-> "none", location |-> <<>>, template |-> "", error |-> "", tabs |-> 0]
redirect(loc) == [kind |-> "redirect", location |-> loc, template |-> "", error |-> "", tabs |-> 0]
render_template(name, err) == [kind |-> "template", location |-> <<>>, template |-> name, error |-> err, tabs |-> 0]
StatusResponse(code) == [kind |-> code, location |-> <<>>, template |-> "", error |-> "", tabs |-> 0]

LoginError == "Please enter any username and password"

\* ------------------------------------------------------------- handlers
\* protect_routes as it would be without the "/_dash" test.
protect_routes_dashboard_only(path, sess) ==
    IF StartsWith(path, PathDashboardNoSlash)
    THEN IF ~Truthy(DictGet(sess, "logged_in"))
         THEN [returned |-> TRUE, response |-> redirect(PathRoot), session |-> sess]
         ELSE [returned |-> FALSE, response |-> NoResponse, session |-> sess]
    ELSE [returned |-> FALSE, response |-> NoResponse, session |-> sess]

\* protect_routes as it would be if it marked the sessions it lets through.
protect_routes_marks_session(path, sess) ==
    IF StartsWith(path, PathDashboardNoSlash) \/ StartsWith(path, PathUnderscoreDash)
    THEN IF ~Truthy(DictGet(sess, "logged_in"))
         THEN [returned |-> TRUE, response |-> redirect(PathRoot), session |-> sess]
         ELSE [returned |-> FALSE, response |-> NoResponse, session |-> sess]
    ELSE [returned |-> FALSE, response |-> NoResponse, session |-> SessionWith(TRUE)]

\* @server.before_request protect_routes: a redirect, or None (fall through);
\* the session as the function leaves it.
protect_routes(path, sess) ==
    IF StartsWith(path, PathDashboardNoSlash) \/ StartsWith(path, PathUnderscoreDash)
    THEN IF ~Truthy(DictGet(sess, "logged_in"))
         THEN [returned |-> TRUE, response |-> redirect(PathRoot), session |-> sess]
         ELSE [returned |-> FALSE, response |-> NoResponse, session |-> sess]
    ELSE [returned |-> FALSE, response |-> NoResponse, session |-> sess]

\* def login_page()
login_page(sess) == [session |-> sess, response |-> render_template("login.html", "")]

\* login as it would be if it redirected without setting the flag.
login_without_flag(form, sess) ==
    IF Truthy(DictGet(form, "username")) /\ Truthy(DictGet(form, "password"))
    THEN [session |-> sess, response |-> redirect(PathDashboard)]
    ELSE [session |-> sess, response |-> render_template("login.html", LoginError)]

\* login as it would be with `or` in place of `and`.
login_either_field(form, sess) ==
    IF Truthy(DictGet(form, "username")) \/ Truthy(DictGet(form, "password"))
    THEN [session |-> [k \in DOMAIN sess \cup {"logged_in"} |->
                          IF k = "logged_in" THEN PyBool(TRUE) ELSE sess[k]],
          response |-> redirect(PathDashboard)]
    ELSE [session |-> sess, response |-> render_template("login.html", LoginError)]

\* def login(): form is the submitted form, a dict of strings.
login(form, sess) ==
    LET username == DictGet(form, "username")
        password == DictGet(form, "password")
    IN IF Truthy(username) /\ Truthy(password)
       THEN [session |-> [k \in DOMAIN sess \cup {"logged_in"} |->
                             IF k = "logged_in" THEN PyBool(TRUE) ELSE sess[k]],
             response |-> redirect(PathDashboard)]
       ELSE [session |-> sess, response |-> render_template("login.html", LoginError)]

\* logout as it would be with session["logged_in"] = False for session.clear().
logout_sets_false(sess) == [session |-> SessionWith(FALSE), response |-> redirect(PathRoot)]

\* logout as it would be if it only redirected.
logout_keeps_session(sess) == [session |-> sess, response |-> redirect(PathRoot)]

\* def logout()
logout(sess) == [session |-> EmptySession, response |-> redirect(PathRoot)]

\* ------------------------------------------------------------- artifacts
\* A name that has not been assigned yet.
Unbound == [unbound |-> TRUE]

PyInt(i) == [t |-> "int", i |-> i]

\* int(k) for the keys of id_to_name (JSON object keys are strings).
IntOf(k) ==
    CASE k = "0" -> [ok |-> TRUE, value |-> 0]
      [] k = "1" -> [ok |-> TRUE, value |-> 1]
      [] k = "2" -> [ok |-> TRUE, value |-> 2]
      [] OTHER -> [ok |-> FALSE, value |-> 0]

\* The nine keys of a cluster-result document, as render_tab reads them.
ClusterDoc8 ==
    [adjacencym |-> <<<<0, 1>>, <<1, 0>>>>,
     clusters |-> <<0, 1>>,
     cluster_names |-> <<"c0", "c1">>,
     id_to_name |-> [k \in {"0", "1"} |-> IF k = "0" THEN "ann" ELSE "bob"],
     cluster_size |-> <<1, 1>>,
     cluster_max |-> <<0, 0>>,
     cluster_min |-> <<0, 0>>,
     cluster_avg |-> <<0, 0>>,
     closeness |-> <<<<1, 0>>, <<0, 1>>>>]

ClusterDoc16 ==
    [adjacencym |-> <<<<0, 1, 0>>, <<1, 0, 1>>, <<0, 1, 0>>>>,
     clusters |-> <<0, 1, 2>>,
     cluster_names |-> <<"c0", "c1", "c2">>,
     id_to_name |-> [k \in {"0", "1", "2"} |-> IF k = "0" THEN "ann" ELSE IF k = "1" THEN "bob" ELSE "cy"],
     cluster_size |-> <<1, 1, 1>>,
     cluster_max |-> <<0, 0, 0>>,
     cluster_min |-> <<0, 0, 0>>,
     cluster_avg |-> <<0, 0, 0>>,
     closeness |-> <<<<1, 0, 0>>, <<0, 1, 0>>, <<0, 0, 1>>>>]

\* What a file under output/ may be when the process starts.
FileAbsent == [state |-> "absent"]
FileMalformed == [state |-> "malformed"]
FileOk(content) == [state |-> "ok", content |-> content]

\* A table as read_csv returns it: header labels and a row count.
Frame(labels, n) == [columns |-> labels, nrows |-> n]
HeaderLabels(n) == [i \in 1..n |-> PyStr("h")]

Cluster1Files == {FileAbsent, FileMalformed, FileOk(ClusterDoc8)}
Cluster2Files == {FileAbsent, FileMalformed, FileOk(ClusterDoc16)}
UserStatsFiles == {FileAbsent, FileOk(Frame(HeaderLabels(4), 2)), FileOk(Frame(HeaderLabels(3), 2))}

\* json.load(open(path)) / pd.read_csv(path): the value, or the exception.
ReadFile(f) ==
    CASE f.state = "absent" -> [raised |-> "FileNotFoundError", value |-> Unbound]
      [] f.state = "malformed" -> [raised |-> "ParseError", value |-> Unbound]
      [] f.state = "ok" -> [raised |-> "none", value |-> f.content]

\* user_stats.columns = [0, 1, 2, 3]: pandas raises ValueError on a length
\* mismatch and leaves the frame as it was.
SetColumns(frame, labels) ==
    IF Len(frame.columns) = Len(labels)
    THEN [raised |-> "none", value |-> [frame EXCEPT !.columns = labels]]
    ELSE [raised |-> "ValueError", value |-> frame]

PositionalLabels == <<PyInt(0), PyInt(1), PyInt(2), PyInt(3)>>

\* The dict literal of the except branch.
DefaultGroup ==
    [adjacencym |-> <<<<>>>>,
     clusters |-> <<>>,
     cluster_names |-> <<>>,
     id_to_name |-> [k \in {} |-> ""]]

\* pd.DataFrame()
EmptyFrame == Frame(<<>>, 0)

\* The except branch as it would be if it only replaced group2 and user_stats.
ExceptHandler_keeps_group1(g1, g2, us) ==
    [group1 |-> g1, group2 |-> DefaultGroup, user_stats |-> EmptyFrame]

\* The except branch: the three names as it leaves them.
ExceptHandler(g1, g2, us) ==
    [group1 |-> DefaultGroup, group2 |-> DefaultGroup, user_stats |-> EmptyFrame]

\* ------------------------------------------------------------- plotting (util)
plot_users(stats) == [chart |-> "users", rows |-> stats.nrows]
plot_network(adjacencym, clusters, cluster_names, id_to_name, s) ==
    [chart |-> "network", nodes |-> DOMAIN id_to_name, seed |-> s]
plot_clusters(size, max, min, avg, names) == [chart |-> "clusters", n |-> Len(names)]
plot_closeness(closeness) == [chart |-> "closeness", n |-> Len(closeness)]

\* ------------------------------------------------------------- layout
\* The subscripts of res_dict in the order render_tab evaluates them; the
\* network chart is called after the first four and the key conversion.
TabKeys ==
    <<"adjacencym", "clusters", "cluster_names", "id_to_name",
      "cluster_size", "cluster_max", "cluster_min", "cluster_avg", "cluster_names",
      "closeness">>

NetworkKeys == 4

\* {int(k): v for k, v in id_to_name.items()}
IntKeys(d) ==
    IF \A k \in DOMAIN d : IntOf(k).ok
    THEN [raised |-> "none",
          value |-> [i \in {IntOf(k).value : k \in DOMAIN d} |->
                        d[CHOOSE k \in DOMAIN d : IntOf(k).value = i]]]
    ELSE [raised |-> "ValueError", value |-> Unbound]

\* The body of render_tab, the seed it hands to plot_network made explicit:
\* the tab, or the exception, and the seeds plot_network was called with.
RenderTabSeeded(name, res_dict, s) ==
    LET missing == {i \in 1..Len(TabKeys) : TabKeys[i] \notin DOMAIN res_dict}
        first == CHOOSE i \in missing : \A j \in missing : i <= j
    IN IF missing # {} /\ first <= NetworkKeys
       THEN [raised |-> "KeyError", tab |-> Unbound, network_seeds |-> <<>>]
       ELSE IF IntKeys(res_dict.id_to_name).raised # "none"
       THEN [raised |-> "ValueError", tab |-> Unbound, network_seeds |-> <<>>]
       ELSE IF missing # {}
       THEN [raised |-> "KeyError", tab |-> Unbound, network_seeds |-> <<s>>]
       ELSE [raised |-> "none",
             tab |-> [label |-> name,
                      network |-> plot_network(res_dict.adjacencym, res_dict.clusters,
                                               res_dict.cluster_names,
                                               IntKeys(res_dict.id_to_name).value, s),
                      clusters |-> plot_clusters(res_dict.cluster_size, res_dict.cluster_max,
                                                 res_dict.cluster_min, res_dict.cluster_avg,
                                                 res_dict.cluster_names),
                      closeness |-> plot_closeness(res_dict.closeness)],
             network_seeds |-> <<s>>]

\* render_tab as it would be if the granular tab drew a seed of its own.
render_tab_own_seed(name, res_dict, s) ==
    RenderTabSeeded(name, res_dict,
                    IF name = "Granular View (16 Clusters)" THEN (s % SeedMax) + 1 ELSE s)

\* def render_tab(name, res_dict): s is the module-level seed it reads.
render_tab(name, res_dict, s) == RenderTabSeeded(name, res_dict, s)

\* app.layout = html.Div(...): the global stats chart, then the two tabs in
\* order; an exception in the first tab ends the construction.
MainLayout(g1, g2, us, s) ==
    LET stats == plot_users(us)
        t1 == render_tab("Community View (8 Clusters)", g1, s)
        t2 == render_tab("Granular View (16 Clusters)", g2, s)
    IN IF t1.raised # "none"
       THEN [raised |-> t1.raised, layout |-> Unbound, network_seeds |-> t1.network_seeds]
       ELSE IF t2.raised # "none"
       THEN [raised |-> t2.raised, layout |-> Unbound,
             network_seeds |-> t1.network_seeds \o t2.network_seeds]
       ELSE [raised |-> "none",
             layout |-> [stats |-> stats, tabs |-> <<t1.tab, t2.tab>>],
             network_seeds |-> t1.network_seeds \o t2.network_seeds]

\* ------------------------------------------------------------- routing
\* The URL map: the three @server.route rules and the Dash application
\* mounted at url_base_pathname; anything else is 404, a wrong method 405.
Route(method, path) ==
    CASE path = PathRoot -> IF method = "GET" THEN "login_page" ELSE "405"
      [] path = PathLogin -> IF method = "POST" THEN "login" ELSE "405"
      [] path = PathLogout -> IF method = "GET" THEN "logout" ELSE "405"
      [] StartsWith(path, PathDashboard) -> "dash"
      [] OTHER -> "404"

\* The Dash application serving the layout built at start-up.
dash(sess, lay) ==
    [session |-> sess,
     response |-> [kind |-> "dash", location |-> <<>>, template |-> "", error |-> "",
                   tabs |-> Len(lay.tabs)]]

\* dispatch_request: the view function of the matched rule.
Dispatch(v, form, sess, lay) ==
    CASE v = "login_page" -> login_page(sess)
      [] v = "login" -> login(form, sess)
      [] v = "logout" -> logout(sess)
      [] v = "dash" -> dash(sess, lay)
      [] OTHER -> [session |-> sess, response |-> StatusResponse(v)]

\* full_dispatch_request: the before_request gate, then the view unless the
\* gate returned a response.
FullDispatch(method, path, form, sess, lay) ==
    LET gate == protect_routes(path, sess)
        v == Route(method, path)
    IN IF gate.returned
       THEN [session |-> gate.session, response |-> gate.response, view |-> "none"]
       ELSE [session |-> Dispatch(v, form, gate.session, lay).session,
             response |-> Dispatch(v, form, gate.session, lay).response,
             view |-> v]

\* ------------------------------------------------------------- inputs
EmptyForm == [k \in {} |-> PyStr("")]

\* request.form of a POST /login: a field is missing, empty or filled.
\* Submitted pairs: both empty, one empty, equal values, different values.
FieldPairs == {<<"", "">>, <<"a", "">>, <<"", "a">>, <<"a", "a">>, <<"x", "y">>}

Forms ==
    {EmptyForm}
    \cup {[k \in {"username"} |-> PyStr("x")], [k \in {"password"} |-> PyStr("y")]}
    \cup {[username |-> PyStr(f[1]), password |-> PyStr(f[2])] : f \in FieldPairs}

ProtectedPaths ==
    {PathDashboard, PathDashLayout, PathDashboardNoSlash, PathDashboards,
     PathUnderscoreDash, PathDashUpdate}

\* The requests made under the gated prefixes: page loads, and the POST of
\* the interactive page's callbacks.
ProtectedRequests ==
    {<<"GET", path>> : path \in ProtectedPaths} \cup {<<"POST", PathDashUpdate>>}

OtherPaths == {PathAsset, PathDash, PathLogin}

NoRequest == [client |-> 0, method |-> "", path |-> <<>>, form |-> EmptyForm, sess |-> EmptySession]

\* ------------------------------------------------------------- state
VARIABLES
    files,          \* the files under output/ (the environment, fixed)
    pc,             \* position of the module-level code
    exc,            \* the exception raised and not yet handled, or "none"
    group1, group2, user_stats, seed, layout,   \* module globals
    network_seeds,  \* the seed arguments plot_network was called with, in order
    session,        \* per client: its session dict
    request,        \* the request handled last, with the session it arrived with
    response,       \* the response to it
    view,           \* the view function that ran for it ("none": the gate answered)
    last_auth       \* per client: its last login success / logout at this process

vars ==
    <<files, pc, exc, group1, group2, user_stats, seed, layout, network_seeds,
      session, request, response, view, last_auth>>

startup == <<files, pc, exc, group1, group2, user_stats, seed, layout, network_seeds>>
serving == <<session, request, response, view, last_auth>>

Init ==
    /\ files \in [cluster1 : Cluster1Files, cluster2 : Cluster2Files, user_stats : UserStatsFiles]
    /\ pc = "load_cluster1"
    /\ exc = "none"
    /\ group1 = Unbound
    /\ group2 = Unbound
    /\ user_stats = Unbound
    /\ seed = Unbound
    /\ layout = Unbound
    /\ network_seeds = <<>>
    /\ session \in [Clients -> InitialSessions]
    /\ request = NoRequest
    /\ response = NoResponse
    /\ view = "none"
    /\ last_auth = [c \in Clients |-> "none"]

\* ------------------------------------------------------------- start-up
\* with open('output/cluster1.json') as f: group1 = json.load(f)
LoadCluster1 ==
    /\ pc = "load_cluster1"
    /\ LET r == ReadFile(files.cluster1)
       IN IF r.raised = "none"
          THEN /\ group1' = r.value
               /\ pc' = "load_cluster2"
               /\ exc' = exc
          ELSE /\ group1' = group1
               /\ pc' = "except"
               /\ exc' = r.raised
    /\ UNCHANGED <<files, group2, user_stats, seed, layout, network_seeds>>
    /\ UNCHANGED serving

\* with open('output/cluster2.json') as f: group2 = json.load(f)
LoadCluster2 ==
    /\ pc = "load_cluster2"
    /\ LET r == ReadFile(files.cluster2)
       IN IF r.raised = "none"
          THEN /\ group2' = r.value
               /\ pc' = "read_csv"
               /\ exc' = exc
          ELSE /\ group2' = group2
               /\ pc' = "except"
               /\ exc' = r.raised
    /\ UNCHANGED <<files, group1, user_stats, seed, layout, network_seeds>>
    /\ UNCHANGED serving

\* user_stats = pd.read_csv('output/user_stats.csv', header=0, index_col=0)
ReadCsv ==
    /\ pc = "read_csv"
    /\ LET r == ReadFile(files.user_stats)
       IN IF r.raised = "none"
          THEN /\ user_stats' = r.value
               /\ pc' = "set_columns"
               /\ exc' = exc
          ELSE /\ user_stats' = user_stats
               /\ pc' = "except"
               /\ exc' = r.raised
    /\ UNCHANGED <<files, group1, group2, seed, layout, network_seeds>>
    /\ UNCHANGED serving

\* user_stats.columns = [0, 1, 2, 3]
RenameColumns ==
    /\ pc = "set_columns"
    /\ LET r == SetColumns(user_stats, PositionalLabels)
       IN /\ user_stats' = r.value
          /\ IF r.raised = "none"
             THEN pc' = "seed" /\ exc' = exc
             ELSE pc' = "except" /\ exc' = r.raised
    /\ UNCHANGED <<files, group1, group2, seed, layout, network_seeds>>
    /\ UNCHANGED serving

\* except Exception as e: ...
Except ==
    /\ pc = "except"
    /\ LET h == ExceptHandler(group1, group2, user_stats)
       IN /\ group1' = h.group1
          /\ group2' = h.group2
          /\ user_stats' = h.user_stats
    /\ exc' = "none"
    /\ pc' = "seed"
    /\ UNCHANGED <<files, seed, layout, network_seeds>>
    /\ UNCHANGED serving

\* random.randint(lo, hi): an integer of lo..hi, both ends included (of
\* which SeedSamples are explored).
randint(lo, hi) == {n \in lo..hi : n < lo + SeedSamples - 1 \/ n = hi}

\* seed = random.randint(1, 100)
DrawSeed ==
    /\ pc = "seed"
    /\ seed' \in randint(SeedMin, SeedMax)
    /\ pc' = "layout"
    /\ UNCHANGED <<files, exc, group1, group2, user_stats, layout, network_seeds>>
    /\ UNCHANGED serving

\* app.layout = ...; then server.run(), or the import dies of the exception.
BuildLayout ==
    /\ pc = "layout"
    /\ LET m == MainLayout(group1, group2, user_stats, seed)
       IN /\ layout' = m.layout
          /\ network_seeds' = m.network_seeds
          /\ exc' = m.raised
          /\ pc' = IF m.raised = "none" THEN "serving" ELSE "crashed"
    /\ UNCHANGED <<files, group1, group2, user_stats, seed>>
    /\ UNCHANGED serving

\* ------------------------------------------------------------- requests
\* A submission with both fields present and non-empty.
BothFilled(form) ==
    /\ {"username", "password"} \subseteq DOMAIN form
    /\ form["username"].s # ""
    /\ form["password"].s # ""

\* One request of client c, handled to completion.
Handle(c, method, path, form) ==
    /\ pc = "serving"
    /\ LET out == FullDispatch(method, path, form, session[c], layout)
       IN /\ session' = [session EXCEPT ![c] = out.session]
          /\ response' = out.response
          /\ view' = out.view
          /\ last_auth' =
                [last_auth EXCEPT ![c] =
                    IF out.view = "logout" THEN "logout"
                    ELSE IF out.view = "login" /\ BothFilled(form) THEN "login"
                    ELSE @]
    /\ request' = [client |-> c, method |-> method, path |-> path, form |-> form,
                   sess |-> session[c]]
    /\ UNCHANGED startup

GetLoginPage(c) == Handle(c, "GET", PathRoot, EmptyForm)
PostLogin(c, form) == Handle(c, "POST", PathLogin, form)
GetLogout(c) == Handle(c, "GET", PathLogout, EmptyForm)
RequestProtected(c, method, path) == Handle(c, method, path, EmptyForm)
GetOther(c, path) == Handle(c, "GET", path, EmptyForm)

Next ==
    \/ LoadCluster1
    \/ LoadCluster2
    \/ ReadCsv
    \/ RenameColumns
    \/ Except
    \/ DrawSeed
    \/ BuildLayout
    \/ \E c \in Clients : GetLoginPage(c)
    \/ \E c \in Clients, form \in Forms : PostLogin(c, form)
    \/ \E c \in Clients : GetLogout(c)
    \/ \E c \in Clients, r \in ProtectedRequests : RequestProtected(c, r[1], r[2])
    \/ \E c \in Clients, path \in OtherPaths : GetOther(c, path)

Spec == Init /\ [][Next]_vars

\* ------------------------------------------------------------- properties
\* A request has been handled, and the last one came from client c.
Served(c) == pc = "serving" /\ request.client = c

\* pre is a prefix of p.
IsPrefix(pre, p) == \E n \in 0..Len(p) : pre = [i \in 1..n |-> p[i]]

\* The path lies under "/dashboard" or "/_dash".
UnderProtectedPrefix(path) ==
    \/ IsPrefix(<<"/", "d", "a", "s", "h", "b", "o", "a", "r", "d">>, path)
    \/ IsPrefix(<<"/", "_", "d", "a", "s", "h">>, path)

\* The session has no logged_in flag, or has it false.
NotLoggedIn(sess) == "logged_in" \notin DOMAIN sess \/ sess["logged_in"] = PyBool(FALSE)

IsLoginSubmission == request.method = "POST" /\ request.path = PathLogin
IsLogout == request.method = "GET" /\ request.path = PathLogout

\* C1: a request under a protected prefix ("/dashboard" or "/_dash") that
\* arrives with a session whose logged_in flag is absent or false is answered
\* by the gate with a redirect to "/", no view function runs for it, and the
\* gate answers an absent flag exactly as it answers an explicit false.
C1_GateRedirectsUnauthenticated ==
    \A c \in Clients :
        (Served(c) /\ UnderProtectedPrefix(request.path) /\ NotLoggedIn(request.sess)) =>
            /\ response = redirect(PathRoot)
            /\ view = "none"
            /\ protect_routes(request.path, EmptySession).returned
            /\ protect_routes(request.path, SessionWith(FALSE)).returned
            /\ protect_routes(request.path, EmptySession).response
                 = protect_routes(request.path, SessionWith(FALSE)).response

\* Witness of C1: a POST under "/_dash" with an explicit false flag was redirected to "/".
C1_Witness ==
    \E c \in Clients :
        /\ Served(c)
        /\ request.method = "POST"
        /\ request.path = PathDashUpdate
        /\ request.sess = SessionWith(FALSE)
        /\ response = redirect(PathRoot)
        /\ view = "none"

\* C2: after a POST /login with both fields non-empty, whatever the values
\* and the session it arrived with, the client's logged_in flag is true and
\* the response is a redirect to "/dashboard/".
C2_LoginSetsFlagAndRedirects ==
    \A c \in Clients :
        (Served(c) /\ IsLoginSubmission /\ BothFilled(request.form)) =>
            /\ "logged_in" \in DOMAIN session[c]
            /\ session[c]["logged_in"] = PyBool(TRUE)
            /\ response = redirect(PathDashboard)
            /\ view = "login"

\* Witness of C2: "a"/"a" submitted on a session holding an explicit false flag.
C2_Witness ==
    \E c \in Clients :
        /\ Served(c)
        /\ IsLoginSubmission
        /\ request.form = [username |-> PyStr("a"), password |-> PyStr("a")]
        /\ request.sess = SessionWith(FALSE)
        /\ session[c] = SessionWith(TRUE)
        /\ response = redirect(PathDashboard)

\* C3: after a POST /login with username or password empty or missing, the
\* session is exactly what it was before the request, and the response is
\* the login page rendered with the error message, not a redirect.
C3_RejectedLoginLeavesSession ==
    \A c \in Clients :
        (Served(c) /\ IsLoginSubmission /\ ~BothFilled(request.form)) =>
            /\ session[c] = request.sess
            /\ response = render_template("login.html", LoginError)
            /\ response.kind # "redirect"
            /\ response.error # ""

\* Witness of C3: a username with the password field missing, on an empty session.
C3_Witness ==
    \E c \in Clients :
        /\ Served(c)
        /\ IsLoginSubmission
        /\ request.form = [k \in {"username"} |-> PyStr("x")]
        /\ request.sess = EmptySession
        /\ session[c] = EmptySession
        /\ response.kind = "template"

\* C4: after GET /logout, from any session state, the session holds no
\* logged_in flag and the response is a redirect to "/"; a second logout
\* from the resulting state gives the same session and the same response.
C4_LogoutClearsIdempotent ==
    \A c \in Clients :
        (Served(c) /\ IsLogout) =>
            /\ "logged_in" \notin DOMAIN session[c]
            /\ session[c] = EmptySession
            /\ response = redirect(PathRoot)
            /\ logout(session[c]).session = session[c]
            /\ logout(session[c]).response = response

\* Witness of C4: a logout that arrived with the flag set.
C4_Witness ==
    \E c \in Clients :
        /\ Served(c)
        /\ IsLogout
        /\ request.sess = SessionWith(TRUE)
        /\ session[c] = EmptySession

\* The start-up has run to its end, one way or the other.
StartupOver == pc \in {"serving", "crashed"}

\* C5: with the cluster-result files absent, both cluster structures are
\* the empty default and the layout construction completes without raising.
C5_AbsentFilesLayoutSucceeds ==
    (files.cluster1 = FileAbsent /\ files.cluster2 = FileAbsent /\ StartupOver) =>
        /\ group1 = DefaultGroup
        /\ group2 = DefaultGroup
        /\ exc = "none"
        /\ pc = "serving"

NoDataFiles ==
    /\ files.cluster1 = FileAbsent
    /\ files.cluster2 = FileAbsent
    /\ files.user_stats = FileAbsent

\* C6: launched with no data files, the process comes to serve requests
\* (its start-up does not end in an exception); there an unauthenticated
\* GET /dashboard/ is redirected to "/", a POST /login with "x"/"y" is
\* redirected to "/dashboard/" and leaves the session authenticated, and a
\* GET /dashboard/ of a client whose last login succeeded is served the
\* layout with its two tabs.
C6_EndToEndWithoutData ==
    NoDataFiles =>
        /\ pc # "crashed"
        /\ \A c \in Clients :
              (Served(c) /\ request.path = PathDashboard) =>
                  /\ NotLoggedIn(request.sess) => response = redirect(PathRoot)
                  /\ last_auth[c] = "login" => (response.kind = "dash" /\ response.tabs = 2)
        /\ \A c \in Clients :
              (Served(c) /\ IsLoginSubmission
                 /\ request.form = [username |-> PyStr("x"), password |-> PyStr("y")]) =>
                  /\ response = redirect(PathDashboard)
                  /\ session[c] = SessionWith(TRUE)

\* C7: the seed is assigned by the one draw that precedes the layout
\* construction and by no other step, and every call of plot_network, for
\* either tab, receives that value.
C7_SeedDrawnOnceAndShared ==
    [][/\ pc # "seed" => seed' = seed
       /\ pc = "seed" => (seed' \in SeedMin..SeedMax /\ layout' = Unbound /\ network_seeds' = <<>>)
       /\ \A i \in DOMAIN network_seeds' : network_seeds'[i] = seed'
       /\ layout' # Unbound =>
             /\ Len(network_seeds') = 2
             /\ layout'.tabs[1].network.seed = seed'
             /\ layout'.tabs[2].network.seed = seed']_vars

\* Witness of C7: the layout stands, built with the highest seed, and requests are served.
C7_Witness ==
    /\ pc = "serving"
    /\ seed = SeedMax
    /\ network_seeds = <<SeedMax, SeedMax>>
    /\ Len(layout.tabs) = 2
    /\ request.client \in Clients

\* The three reads and the renaming of the columns all succeed.
AllReadsSucceed ==
    /\ files.cluster1.state = "ok"
    /\ files.cluster2.state = "ok"
    /\ files.user_stats.state = "ok"
    /\ Len(files.user_stats.content.columns) = 4

\* C8: once the load step is over no exception is in flight, and the three
\* structures are either all the loaded data (when all three reads and the
\* renaming succeeded) or all the empty default (when any of them failed).
C8_LoadAllOrNothing ==
    /\ pc \in {"seed", "layout"} => exc = "none"
    /\ pc \in {"seed", "layout", "serving", "crashed"} =>
          IF AllReadsSucceed
          THEN /\ group1 = files.cluster1.content
               /\ group2 = files.cluster2.content
               /\ user_stats.nrows = files.user_stats.content.nrows
               /\ user_stats.columns = PositionalLabels
          ELSE /\ group1 = DefaultGroup
               /\ group2 = DefaultGroup
               /\ user_stats = EmptyFrame

\* Witness of C8: the first two reads succeeded, the renaming failed, and
\* all three structures are the default.
C8_Witness ==
    /\ pc = "seed"
    /\ files.cluster1.state = "ok"
    /\ files.cluster2.state = "ok"
    /\ files.user_stats.state = "ok"
    /\ Len(files.user_stats.content.columns) = 3
    /\ group1 = DefaultGroup
    /\ group2 = DefaultGroup
    /\ user_stats = EmptyFrame

\* C9: a step in which a client's flag goes from absent or false to true
\* is a POST /login of that client with both fields non-empty; a request of
\* a client that the gate answers, or that is under a protected prefix,
\* leaves that client's session as it was, and no step changes the session
\* of a client other than the one whose request it handles.
C9_OnlyLoginSetsFlag ==
    [][\A c \in Clients :
          /\ (NotLoggedIn(session[c]) /\ ~NotLoggedIn(session'[c])) =>
                /\ request'.client = c
                /\ request'.method = "POST"
                /\ request'.path = PathLogin
                /\ BothFilled(request'.form)
                /\ view' = "login"
          /\ (request'.client = c /\ (view' = "none" \/ UnderProtectedPrefix(request'.path))) =>
                session'[c] = session[c]
          /\ request'.client # c => session'[c] = session[c]]_vars

\* Witness of C9: a login with both fields filled turned an absent flag into true.
C9_Witness ==
    \E c \in Clients :
        /\ Served(c)
        /\ IsLoginSubmission
        /\ BothFilled(request.form)
        /\ request.sess = EmptySession
        /\ ~NotLoggedIn(session[c])

\* C10: a request under a protected prefix by a client whose last
\* login-or-logout was a logout is redirected to "/" by the gate; one by a
\* client whose last login-or-logout was a successful login is not
\* answered by the gate.
C10_LogoutRevokesLoginGrants ==
    \A c \in Clients :
        (Served(c) /\ UnderProtectedPrefix(request.path)) =>
            /\ last_auth[c] = "logout" => (response = redirect(PathRoot) /\ view = "none")
            /\ last_auth[c] = "login" => (view # "none" /\ response.kind # "redirect")

\* Witness of C10: a client that has logged out is redirected from the dashboard.
C10_Witness ==
    \E c \in Clients :
        /\ Served(c)
        /\ request.path = PathDashboard
        /\ last_auth[c] = "logout"
        /\ response = redirect(PathRoot)
====
